---- MODULE Spec2Model ----
(***************************************************************************)
(* Model of phl_courts_scraper_batch/aws.py: the AWS class.                *)
(*   submit_jobs              fan-out of ntasks ECS tasks, provisioning     *)
(*                            check, completion wait, exit-code audit       *)
(*   combine_parallel_results reduction of the partition files on S3        *)
(*   sync                     one-way mirror between S3 and the local tree  *)
(* The orchestrating process is single-threaded: pc is its position.  The  *)
(* ECS cluster and the two storage realms are the environment.             *)
(***************************************************************************)
EXTENDS Integers, Sequences, FiniteSets, TLC

VARIABLES
    pc,         \* position of the orchestrating process
    op,         \* the top-level operation in progress: "none", "submit_jobs", "combine", "sync"
    err,        \* message of the exception that ended the operation ("" if none)
    result,     \* value returned by the operation
    job,        \* submit_jobs: the job arguments (flavor, dataset, tag, dry_run)
    ntasks,     \* submit_jobs: the ntasks argument
    wait,       \* submit_jobs: the wait argument
    requests,   \* ECS: the commands of the run_task requests received, in order
    tasks,      \* submit_jobs: the local list `tasks` of run_task responses
    task_ids,   \* submit_jobs: the local list `task_ids`
    ecsTasks,   \* ECS: taskArn -> [lastStatus, exitCode]
    attempts,   \* the tasks_stopped waiter: polls made so far
    calls,      \* the calls made to the cluster backend and the reducer, in order
    warned,     \* "One or more tasks failed!" was logged
    s3,         \* S3 objects read and written by the reducer: path -> document
    cargs,      \* combine_parallel_results: the arguments (flavor, dataset, output_folder)
    writes,     \* combine_parallel_results: artifacts written by the current run, in order
    data_file,  \* combine_parallel_results: the local `data_file`
    remote,     \* S3 objects seen by sync: path -> modification time
    local,      \* local files under HOME_DIR seen by sync: path -> modification time
    clock,      \* wall clock that stamps modification times
    sargs,      \* sync: the arguments (source, dest, dry_run)
    SOURCE,     \* sync: the local `SOURCE`
    todo,       \* sync: source files of source_fs.find(source) not yet visited
    copies,     \* sync: the (source_file, dest_file) pairs transferred by the current run
    logged,     \* sync: the "Syncing ..." lines of the current run
    lastDone,   \* sync: the last call, if it was not a dry run, completed and no file changed since
    repeat,     \* sync: the current call repeats the call of lastDone
    start       \* sync: the two stores as they were when the current call began

jobVars == <<job, ntasks, wait, requests, tasks, task_ids, ecsTasks, attempts, calls, warned>>
combineVars == <<s3, cargs, writes, data_file>>
syncVars == <<remote, local, clock, sargs, SOURCE, todo, copies, logged, lastDone, repeat, start>>
vars == <<pc, op, err, result, jobVars, combineVars, syncVars>>

----------------------------------------------------------------------------
(* Bounds of the model *)

MaxTasks == 2
MaxFiles == 3
MaxLen == 1
MaxTime == 1

----------------------------------------------------------------------------
(* Program constants *)

APP_NAME == "phl-courts-scraper-batch"

\* WaiterConfig={"Delay": 60, "MaxAttempts": 500}
MaxAttempts == 500

\* io.get_output_paths(...)[0]: the output folder shared by all partitions
output_folder == "out"

\* A returned value: None, or the path of an S3 object
None == [kind |-> "None", path |-> [dir |-> <<>>, tag |-> "", star |-> <<>>, ext |-> ""]]
PathResult(p) == [kind |-> "path", path |-> p]

ErrProvisioning == "Error provisioning some tasks; all tasks stopped."
ErrTypeError == "TypeError: list indices must be integers or slices, not str"
ErrWaiter == "WaiterError: Max attempts exceeded"
ErrNoFolder == "FileNotFoundError: Output folder does not exist for parallel results"
ErrNoFiles == "ValueError: No files found"
ErrNoS3 == "ValueError: One of source or dest should start with s3://"
ErrNotRelative == "ValueError: path is not in the subpath of HOME_DIR"
ErrTransfer == "OSError: transfer failed"
ErrNotFound == "FileNotFoundError"

----------------------------------------------------------------------------
(* Helpers *)

\* Python's range(lo, hi) as a sequence
range(lo, hi) == [k \in 1..(IF hi > lo THEN hi - lo ELSE 0) |-> lo + k - 1]

Last(s) == s[Len(s)]

IsPrefix(p, s) == Len(p) <= Len(s) /\ SubSeq(s, 1, Len(p)) = p

\* A path string is its realm prefix and its "/"-separated segments:
\* "s3://bucket/a/b" is S3Path(<<"bucket", "a", "b">>), "a/b" is LocalPath(<<"a", "b">>)
S3Path(segs) == [s3 |-> TRUE, segs |-> segs]
LocalPath(segs) == [s3 |-> FALSE, segs |-> segs]

----------------------------------------------------------------------------
(* submit_jobs *)

Jobs ==
    { [flavor |-> "court", dataset |-> "d1", tag |-> <<>>, dry_run |-> FALSE],
      [flavor |-> "court", dataset |-> "d1", tag |-> <<"t1">>, dry_run |-> TRUE] }

\* lines 135-169: the command shared by all partitions.  An optional argument
\* is a sequence: empty for None.
base_command(j, n) ==
    << "run", APP_NAME, "scrape", j.flavor, j.dataset,
       "--nprocs=" \o ToString(n), "--sleep=2", "--errors=ignore",
       "--log-freq=50", "--seed=42", "--interval=1", "--time-limit=20" >>
    \o (IF j.tag # <<>> THEN << "--tag=" \o j.tag[1] >> ELSE <<>>)
    \o (IF j.dry_run THEN << "--dry-run" >> ELSE <<>>)
    \o << "--output-folder=" \o output_folder >>

\* line 179
command(j, n, pid) == base_command(j, n) \o << "--pid=" \o ToString(pid) >>

\* range(1, ntasks): a launch loop that starts at 1
LaunchPids_OffByOne(n) == range(1, n)

\* line 173: the partition indices the launch loop iterates over
LaunchPids(n) == range(0, n)

\* A launch loop that stops at the first task that was not provisioned
LaunchDone_FailFast(ts, n) ==
    \/ Len(ts) = Len(LaunchPids(n))
    \/ (ts # <<>> /\ Len(ts[Len(ts)].tasks) = 0)

\* line 173: the launch loop has gone through all its partition indices
LaunchDone(ts, n) == Len(ts) = Len(LaunchPids(n))

\* The run_task response for a task that was provisioned, and for one that was not
Provisioned(arn) == [tasks |-> << [taskArn |-> arn] >>, failures |-> <<>>]
NotProvisioned == [tasks |-> <<>>, failures |-> << [reason |-> "RESOURCE:MEMORY"] >>]

\* line 201: `not len(task["tasks"]) and len(task["tasks"]["failures"])`.
\* task["tasks"] is a list: when it is not empty the `and` short-circuits to
\* False; when it is empty, subscripting it with "failures" raises TypeError.
ProvisioningFailed(task) ==
    IF Len(task.tasks) # 0 THEN "False" ELSE "TypeError"

\* lines 199-204: the loop over the launch results; "raised" when line 201 raises
RECURSIVE CheckLoop(_, _)
CheckLoop(ts, failed) ==
    IF ts = <<>> THEN [raised |-> FALSE, failed |-> failed]
    ELSE LET c == ProvisioningFailed(Head(ts)) IN
         IF c = "TypeError" THEN [raised |-> TRUE, failed |-> failed]
         ELSE CheckLoop(Tail(ts), failed \/ c = "True")

\* line 207
Trim(ts) == SelectSeq(ts, LAMBDA t : Len(t.tasks) # 0)

\* lines 213, 218
Arns(ts) == [k \in 1..Len(ts) |-> ts[k].tasks[1].taskArn]

Elems(s) == { s[k] : k \in 1..Len(s) }

Call(o, a) == [op |-> o, arg |-> a]

\* ecs.stop_task on each task of ts
StopAll(ecs, ts) ==
    [a \in DOMAIN ecs |->
        IF a \in Elems(Arns(ts)) /\ ecs[a].lastStatus = "RUNNING"
        THEN [lastStatus |-> "STOPPED", exitCode |-> 137]
        ELSE ecs[a]]

\* lines 101-172
SubmitJobs ==
    /\ pc = "idle"
    /\ \E j \in Jobs, n \in 1..MaxTasks, w \in BOOLEAN :
          /\ job' = j
          /\ ntasks' = n
          /\ wait' = w
    /\ pc' = "run_task"
    /\ op' = "submit_jobs"
    /\ tasks' = <<>>
    /\ UNCHANGED <<err, result, requests, task_ids, ecsTasks, attempts, calls, warned>>
    /\ UNCHANGED <<combineVars, syncVars>>

\* lines 173-192: one iteration of the launch loop
RunTask ==
    /\ pc = "run_task"
    /\ ~LaunchDone(tasks, ntasks)
    /\ LET pid == LaunchPids(ntasks)[Len(tasks) + 1]
           arn == Len(requests)
       IN /\ requests' = Append(requests, command(job, ntasks, pid))
          /\ calls' = Append(calls, Call("run_task", pid))
          /\ \/ /\ tasks' = Append(tasks, Provisioned(arn))
                /\ ecsTasks' = ecsTasks @@ (arn :> [lastStatus |-> "RUNNING", exitCode |-> 0])
             \/ /\ tasks' = Append(tasks, NotProvisioned)
                /\ UNCHANGED ecsTasks
    /\ UNCHANGED <<pc, op, err, result, job, ntasks, wait, task_ids, attempts, warned>>
    /\ UNCHANGED <<combineVars, syncVars>>

\* A launcher that goes on to the barrier whatever the wait flag
ReturnNoWait_Waits ==
    /\ pc = "run_task"
    /\ LaunchDone(tasks, ntasks)
    /\ ~wait
    /\ ~CheckLoop(tasks, FALSE).raised
    /\ tasks' = Trim(tasks)
    /\ task_ids' = Arns(Trim(tasks))
    /\ pc' = "wait"
    /\ UNCHANGED <<op, err, result, job, ntasks, wait, requests, ecsTasks, attempts, calls, warned>>
    /\ UNCHANGED <<combineVars, syncVars>>

\* lines 194-196
ReturnNoWait ==
    /\ pc = "run_task"
    /\ LaunchDone(tasks, ntasks)
    /\ ~wait
    /\ pc' = "done"
    /\ result' = None
    /\ UNCHANGED <<op, err, jobVars, combineVars, syncVars>>

\* lines 198-204, when line 201 raises
ProvisioningCheckRaises ==
    /\ pc = "run_task"
    /\ LaunchDone(tasks, ntasks)
    /\ wait
    /\ CheckLoop(tasks, FALSE).raised
    /\ pc' = "error"
    /\ err' = ErrTypeError
    /\ UNCHANGED <<op, result, jobVars, combineVars, syncVars>>

\* lines 198-218, when the loop of lines 200-204 completes
ProvisioningCheck ==
    /\ pc = "run_task"
    /\ LaunchDone(tasks, ntasks)
    /\ wait
    /\ ~CheckLoop(tasks, FALSE).raised
    /\ LET failed == CheckLoop(tasks, FALSE).failed
           trimmed == Trim(tasks)
       IN /\ tasks' = trimmed
          /\ IF failed
             THEN /\ ecsTasks' = StopAll(ecsTasks, trimmed)
                  /\ calls' = calls \o [k \in 1..Len(trimmed) |-> Call("stop_task", Arns(trimmed)[k])]
                  /\ pc' = "error"
                  /\ err' = ErrProvisioning
                  /\ UNCHANGED task_ids
             ELSE /\ task_ids' = Arns(trimmed)
                  /\ pc' = "wait"
                  /\ UNCHANGED <<ecsTasks, calls, err>>
    /\ UNCHANGED <<op, result, job, ntasks, wait, requests, attempts, warned>>
    /\ UNCHANGED <<combineVars, syncVars>>

\* A waiter satisfied by the first task that stops
AllStopped_Any(ecs, ids) ==
    \E k \in 1..Len(ids) : ecs[ids[k]].lastStatus = "STOPPED"

\* line 222: the success acceptor of the tasks_stopped waiter: every described
\* task has lastStatus STOPPED
AllStopped(ecs, ids) ==
    /\ ids # <<>>
    /\ \A k \in 1..Len(ids) : ecs[ids[k]].lastStatus = "STOPPED"

\* A waiter that allows one attempt more
Exhausted_Late(n) == n > MaxAttempts

\* line 226: MaxAttempts polls have been made
Exhausted(n) == n >= MaxAttempts

\* lines 220-228: one poll of waiter.wait
WaiterPoll ==
    /\ pc = "wait"
    /\ attempts' = attempts + 1
    /\ calls' = IF attempts = 0 THEN Append(calls, Call("wait", Len(task_ids))) ELSE calls
    /\ \/ /\ AllStopped(ecsTasks, task_ids)
          /\ pc' = "describe"
          /\ UNCHANGED err
       \/ /\ ~AllStopped(ecsTasks, task_ids)
          /\ Exhausted(attempts + 1)
          /\ pc' = "error"
          /\ err' = ErrWaiter
       \/ /\ ~AllStopped(ecsTasks, task_ids)
          /\ ~Exhausted(attempts + 1)
          /\ UNCHANGED <<pc, err>>
    /\ UNCHANGED <<op, result, job, ntasks, wait, requests, tasks, task_ids, ecsTasks, warned>>
    /\ UNCHANGED <<combineVars, syncVars>>

\* An audit that raises when a task exited with a non-zero code
DescribeTasks_Strict ==
    /\ pc = "describe"
    /\ LET exit_codes == [k \in 1..Len(task_ids) |-> ecsTasks[task_ids[k]].exitCode]
           bad == \E k \in 1..Len(exit_codes) : exit_codes[k] # 0
       IN /\ warned' = bad
          /\ IF bad
             THEN /\ pc' = "error"
                  /\ err' = "RuntimeError: some tasks failed"
                  /\ calls' = Append(calls, Call("describe_tasks", Len(task_ids)))
                  /\ UNCHANGED <<cargs, writes, data_file>>
             ELSE /\ pc' = "combine"
                  /\ calls' = calls \o << Call("describe_tasks", Len(task_ids)),
                                          Call("combine_parallel_results", 0) >>
                  /\ cargs' = [flavor |-> job.flavor, dataset |-> job.dataset,
                                output_folder |-> S3Path(<<APP_NAME, output_folder, "chunks">>)]
                  /\ writes' = <<>>
                  /\ data_file' = None
                  /\ UNCHANGED err
    /\ UNCHANGED <<op, result, job, ntasks, wait, requests, tasks, task_ids, ecsTasks, attempts>>
    /\ UNCHANGED <<s3, syncVars>>

\* lines 230-246: the exit-code audit, then the call of combine_parallel_results
DescribeTasks ==
    /\ pc = "describe"
    /\ LET exit_codes == [k \in 1..Len(task_ids) |-> ecsTasks[task_ids[k]].exitCode]
       IN warned' = (\E k \in 1..Len(exit_codes) : exit_codes[k] # 0)
    /\ calls' = calls \o << Call("describe_tasks", Len(task_ids)), Call("combine_parallel_results", 0) >>
    /\ pc' = "combine"
    /\ cargs' = [flavor |-> job.flavor, dataset |-> job.dataset,
                  output_folder |-> S3Path(<<APP_NAME, output_folder, "chunks">>)]
    /\ writes' = <<>>
    /\ data_file' = None
    /\ UNCHANGED <<op, err, result, job, ntasks, wait, requests, tasks, task_ids, ecsTasks, attempts>>
    /\ UNCHANGED <<s3, syncVars>>

\* ECS: a running task exits on its own, in any order, with any exit code
ExitCodes == {0, 1}

TaskStops ==
    /\ \E a \in DOMAIN ecsTasks, c \in ExitCodes :
          /\ ecsTasks[a].lastStatus = "RUNNING"
          /\ ecsTasks' = [ecsTasks EXCEPT ![a] = [lastStatus |-> "STOPPED", exitCode |-> c]]
    /\ UNCHANGED <<pc, op, err, result, job, ntasks, wait, requests, tasks, task_ids, attempts, calls, warned>>
    /\ UNCHANGED <<combineVars, syncVars>>

----------------------------------------------------------------------------
(* combine_parallel_results *)

\* An S3 object of the reducer: the folder it lies in and its file name, the
\* name cut the way the glob pattern <tag>*<extension> reads it.  A string is
\* compared as the sequence of its code points, so the part matched by * is
\* kept as code points: "1" is <<49>>, "10" is <<49, 48>>.
File(dir, tag, star, ext) == [dir |-> dir, tag |-> tag, star |-> star, ext |-> ext]

\* A stored document: a JSON array (vals), a JSON object (keys and vals, in
\* document order) or, for a .csv file, its rows (vals)
List(vals) == [isdict |-> FALSE, keys |-> <<>>, vals |-> vals]
Dict(keys, vals) == [isdict |-> TRUE, keys |-> keys, vals |-> vals]

\* Code points of the extensions ".json" and ".csv"
ExtChars(ext) == IF ext = ".json" THEN <<46, 106, 115, 111, 110>> ELSE <<46, 99, 115, 118>>

\* The part of a globbed path in which two matches of one pattern differ
NameChars(f) == f.star \o ExtChars(f.ext)

\* Python's < on strings: by code point, a proper prefix first
RECURSIVE StrLess(_, _)
StrLess(a, b) ==
    IF a = <<>> THEN b # <<>>
    ELSE IF b = <<>> THEN FALSE
    ELSE IF a[1] # b[1] THEN a[1] < b[1]
    ELSE StrLess(Tail(a), Tail(b))

\* Shorter names first: the order of the partition indices, "2" before "10"
NaturalLess(a, b) ==
    IF Len(a) # Len(b) THEN Len(a) < Len(b) ELSE StrLess(a, b)

RECURSIVE sorted_Natural(_)
sorted_Natural(S) ==
    IF S = {} THEN <<>>
    ELSE LET m == CHOOSE x \in S : \A y \in S \ {x} : NaturalLess(NameChars(x), NameChars(y))
         IN <<m>> \o sorted_Natural(S \ {m})

\* line 274: sorted(...) of the globbed paths
RECURSIVE sorted(_)
sorted(S) ==
    IF S = {} THEN <<>>
    ELSE LET m == CHOOSE x \in S : \A y \in S \ {x} : StrLess(NameChars(x), NameChars(y))
         IN <<m>> \o sorted(S \ {m})

\* lines 273-274: fs.glob(f"{output_folder}/{tag}*{extension}")
glob(store, dir, tag, ext) ==
    { f \in DOMAIN store : f.dir = dir /\ f.tag = tag /\ f.ext = ext }

\* lines 256-257: self.exists(output_folder) on S3: some object lies under it
exists(store, path) ==
    \E f \in DOMAIN store : IsPrefix(path.segs, f.dir)

\* lines 266-267
tags(flavor) == << flavor \o "_results", flavor \o "_input" >>
extensions == << ".json", ".csv" >>

\* A reducer that does not check for an empty glob
NoFiles_Never(files) == FALSE

\* lines 275-276: the check that the glob found files
NoFiles(files) == Len(files) = 0

\* line 297: [v for _, v in r.items() if v]; the value 0 is the falsy one
Truthy(v) == v # 0

\* A conversion that keeps every value of the mapping
DictValues_All(r) == r.vals

DictValues(r) == SelectSeq(r.vals, Truthy)

\* lines 292-303: the accumulation of the .json files
RECURSIVE CombineJson(_, _)
CombineJson(store, files) ==
    IF files = <<>> THEN <<>>
    ELSE LET r0 == store[Head(files)]
             r == IF r0.isdict THEN DictValues(r0) ELSE r0.vals
         IN r \o CombineJson(store, Tail(files))

\* lines 304-310: the row-wise concatenation of the .csv files
RECURSIVE CombineCsv(_, _)
CombineCsv(store, files) ==
    IF files = <<>> THEN <<>>
    ELSE store[Head(files)].vals \o CombineCsv(store, Tail(files))

\* os.path.normpath on the segments: ".." removes the segment before it
RECURSIVE normpath(_, _)
normpath(done, rest) ==
    IF rest = <<>> THEN done
    ELSE IF Head(rest) = ".." /\ done # <<>>
         THEN normpath(SubSeq(done, 1, Len(done) - 1), Tail(rest))
         ELSE normpath(Append(done, Head(rest)), Tail(rest))

\* An artifact written into the output folder itself
OutputFile_InFolder(folder, tag, ext) == File(folder.segs, tag, <<>>, ext)

\* lines 312-316: f"{output_folder}/../{tag}{extension}", normalised
OutputFile(folder, tag, ext) ==
    LET p == normpath(<<>>, folder.segs \o << "..", tag \o ext >>)
    IN File(SubSeq(p, 1, Len(p) - 1), tag, <<>>, ext)

CombineArgs ==
    { [flavor |-> "court", dataset |-> "d1",
       output_folder |-> S3Path(<<APP_NAME, output_folder, "chunks">>)] }

\* A direct call of combine_parallel_results
CombineCall ==
    /\ pc = "idle"
    /\ \E a \in CombineArgs : cargs' = a
    /\ pc' = "combine"
    /\ op' = "combine"
    /\ writes' = <<>>
    /\ data_file' = None
    /\ UNCHANGED <<err, result, s3, jobVars, syncVars>>

\* lines 253-260
CombineStart ==
    /\ pc = "combine"
    /\ IF exists(s3, cargs.output_folder)
       THEN pc' = "combine_0" /\ UNCHANGED err
       ELSE pc' = "error" /\ err' = ErrNoFolder
    /\ UNCHANGED <<op, result, combineVars, jobVars, syncVars>>

\* lines 270-329: iteration i of the loop over the (tag, extension) pairs
CombineIteration(i) ==
    /\ pc = (IF i = 0 THEN "combine_0" ELSE "combine_1")
    /\ LET tag == tags(cargs.flavor)[i + 1]
           extension == extensions[i + 1]
           files == sorted(glob(s3, cargs.output_folder.segs, tag, extension))
       IN IF NoFiles(files)
          THEN /\ pc' = "error"
               /\ err' = ErrNoFiles
               /\ UNCHANGED <<s3, writes, data_file>>
          ELSE LET results == IF extension = ".json" THEN CombineJson(s3, files)
                                                     ELSE CombineCsv(s3, files)
                   filename == OutputFile(cargs.output_folder, tag, extension)
               IN /\ data_file' = (IF i = 0 THEN PathResult(filename) ELSE data_file)
                  /\ s3' = [f \in DOMAIN s3 \cup {filename} |->
                               IF f = filename THEN List(results) ELSE s3[f]]
                  /\ writes' = Append(writes, filename)
                  /\ pc' = (IF i = 0 THEN "combine_1" ELSE "combine_return")
                  /\ UNCHANGED err
    /\ UNCHANGED <<op, result, cargs, jobVars, syncVars>>

\* line 331, and line 248 when submit_jobs made the call
CombineReturn ==
    /\ pc = "combine_return"
    /\ result' = data_file
    /\ pc' = "done"
    /\ UNCHANGED <<op, err, combineVars, jobVars, syncVars>>

----------------------------------------------------------------------------
(* sync *)

\* The working directory of the process is HOME_DIR: a relative local path
\* names the file HOME_DIR/<path>.  A local path with first segment "/" is an
\* absolute path outside HOME_DIR.  The S3 store is keyed the way s3fs names
\* its objects, <bucket>/<key>, and the local store by the path under HOME_DIR.

\* pathlib.Path(p): a path string read as a local path.  "s3://bucket/a"
\* becomes the relative path s3:/bucket/a
Path(p) == IF p.s3 THEN << "s3:" >> \o p.segs ELSE p.segs

\* A relative_to that takes any path as one under HOME_DIR
InHome_Anywhere(p) == TRUE

\* lines 372, 380: Path(p).resolve().relative_to(HOME_DIR)
InHome(p) == Path(p) = <<>> \/ Head(Path(p)) # "/"
relative_to_HOME(p) == LocalPath(Path(p))

\* Only the files directly in the folder, not those of its subfolders
find_TopLevel(fs, root) == { f \in DOMAIN fs : IsPrefix(root.segs, f) /\ Len(f) = Len(root.segs) + 1 }

\* line 383: source_fs.find(source), the files under the folder at any depth
find(fs, root) == { f \in DOMAIN fs : IsPrefix(root.segs, f) }

\* lines 390-394: the path of a source file on the dest system
dest_file(dest, source_file) ==
    LET source_file_key == Tail(source_file)
    IN [s3 |-> dest.s3, segs |-> dest.segs \o source_file_key]

\* line 397: Path(dest_file).exists(), a look at the local file system
PathExists(loc, df) == Path(df) \in DOMAIN loc

\* A dry run that transfers all the same
performs_Always(dry_run) == TRUE

\* line 402: `if not dry_run`
performs(dry_run) == ~dry_run

\* A transfer that leaves f as the only file of the store
transfer_Replacing(fs, f, t) == [g \in {f} |-> t]

\* lines 405, 407: remote.get / remote.put writes the file f of the store at time t
transfer(fs, f, t) == [g \in DOMAIN fs \cup {f} |-> IF g = f THEN t ELSE fs[g]]

\* The calls of sync: S3 to local, local to S3, and the calls of lines 359-380
\* with no S3 side, two S3 sides, or a local side outside HOME_DIR
SyncPairs ==
    { [source |-> S3Path(<<"bkt", "a">>), dest |-> LocalPath(<<"b">>)],
      [source |-> LocalPath(<<"b">>), dest |-> S3Path(<<"bkt">>)],
      [source |-> LocalPath(<<"b">>), dest |-> LocalPath(<<"c">>)],
      [source |-> S3Path(<<"bkt", "a">>), dest |-> S3Path(<<"bkt", "b">>)],
      [source |-> S3Path(<<"bkt", "a">>), dest |-> LocalPath(<<"/", "tmp">>)],
      [source |-> LocalPath(<<"/", "tmp">>), dest |-> S3Path(<<"bkt">>)] }

SyncCalls ==
    { [source |-> c.source, dest |-> c.dest, dry_run |-> d] : c \in SyncPairs, d \in BOOLEAN }

\* lines 357-364
Direction(a) ==
    IF a.source.s3 THEN "aws" ELSE IF a.dest.s3 THEN "local" ELSE "error"

\* The source and dest of the loop, after lines 366-380
LoopSource(a) == IF Direction(a) = "aws" THEN a.source ELSE relative_to_HOME(a.source)
LoopDest(a) == IF Direction(a) = "aws" THEN relative_to_HOME(a.dest) ELSE a.dest

NoStores == [remote |-> [f \in {} |-> 0], local |-> [f \in {} |-> 0]]

NoCall == [valid |-> FALSE, args |-> [source |-> LocalPath(<<>>), dest |-> LocalPath(<<>>), dry_run |-> FALSE]]

\* lines 357-380, when they raise
SyncRejects ==
    /\ pc = "idle"
    /\ \E a \in SyncCalls :
          /\ sargs' = a
          /\ \/ /\ Direction(a) = "error"
                /\ err' = ErrNoS3
                /\ SOURCE' = "None"
             \/ /\ Direction(a) = "aws"
                /\ ~InHome(a.dest)
                /\ err' = ErrNotRelative
                /\ SOURCE' = "aws"
             \/ /\ Direction(a) = "local"
                /\ ~InHome(a.source)
                /\ err' = ErrNotRelative
                /\ SOURCE' = "local"
    /\ pc' = "error"
    /\ op' = "sync"
    /\ todo' = {}
    /\ copies' = {}
    /\ logged' = {}
    /\ repeat' = FALSE
    /\ lastDone' = NoCall
    /\ start' = [remote |-> remote, local |-> local]
    /\ UNCHANGED <<result, remote, local, clock, jobVars, combineVars>>

\* lines 357-383
SyncCall ==
    /\ pc = "idle"
    /\ \E a \in SyncCalls :
          /\ Direction(a) # "error"
          /\ Direction(a) = "aws" => InHome(a.dest)
          /\ Direction(a) = "local" => InHome(a.source)
          /\ sargs' = a
          /\ SOURCE' = Direction(a)
          /\ todo' = find(IF Direction(a) = "aws" THEN remote ELSE local, LoopSource(a))
          /\ repeat' = (lastDone.valid /\ lastDone.args = a)
    /\ pc' = "sync"
    /\ op' = "sync"
    /\ copies' = {}
    /\ logged' = {}
    /\ lastDone' = NoCall
    /\ start' = [remote |-> remote, local |-> local]
    /\ UNCHANGED <<err, result, remote, local, clock, jobVars, combineVars>>

\* lines 384-407: one iteration of the loop over source_files
SyncFile ==
    /\ pc = "sync"
    /\ \E source_file \in todo :
          LET source_fs == IF SOURCE = "aws" THEN remote ELSE local
              dest_fs == IF SOURCE = "aws" THEN local ELSE remote
              df == dest_file(LoopDest(sargs), source_file)
              present == PathExists(local, df)
              entry == [src |-> source_file, dst |-> df]
          IN /\ todo' = todo \ {source_file}
             /\ IF present /\ df.segs \notin DOMAIN dest_fs
                THEN \* dest_fs.modified(dest_file) raises
                     /\ pc' = "error"
                     /\ err' = ErrNotFound
                     /\ UNCHANGED <<remote, local, copies, logged>>
                ELSE IF ~present \/ source_fs[source_file] > dest_fs[df.segs]
                THEN /\ logged' = logged \cup {entry}
                     /\ IF ~performs(sargs.dry_run)
                        THEN UNCHANGED <<pc, err, remote, local, copies>>
                        ELSE \/ /\ copies' = copies \cup {entry}
                                /\ IF SOURCE = "aws"
                                   THEN /\ local' = transfer(local, df.segs, clock)
                                        /\ UNCHANGED remote
                                   ELSE /\ remote' = transfer(remote, df.segs, clock)
                                        /\ UNCHANGED local
                                /\ UNCHANGED <<pc, err>>
                             \/ \* the transfer raises
                                /\ pc' = "error"
                                /\ err' = ErrTransfer
                                /\ UNCHANGED <<remote, local, copies>>
                ELSE UNCHANGED <<pc, err, remote, local, copies, logged>>
    /\ UNCHANGED <<op, result, clock, sargs, SOURCE, lastDone, repeat, start, jobVars, combineVars>>

\* the loop of line 384 is exhausted: sync returns None
SyncDone ==
    /\ pc = "sync"
    /\ todo = {}
    /\ pc' = "done"
    /\ result' = None
    /\ lastDone' = IF sargs.dry_run THEN NoCall ELSE [valid |-> TRUE, args |-> sargs]
    /\ UNCHANGED <<op, err, remote, local, clock, sargs, SOURCE, todo, copies, logged, repeat, start>>
    /\ UNCHANGED <<jobVars, combineVars>>

\* The files other programs write, between calls of sync
SyncFiles == { <<"a", "f1">>, <<"a", "f2">> }
RemoteFiles == { <<"bkt">> \o f : f \in SyncFiles }
LocalFiles == { <<"b">> \o f : f \in SyncFiles }

\* Another program writes a file: it is stamped with the current time
Touch ==
    /\ pc = "idle"
    /\ \/ \E f \in RemoteFiles :
             /\ remote' = [g \in DOMAIN remote \cup {f} |-> IF g = f THEN clock ELSE remote[g]]
             /\ UNCHANGED local
       \/ \E f \in LocalFiles :
             /\ local' = [g \in DOMAIN local \cup {f} |-> IF g = f THEN clock ELSE local[g]]
             /\ UNCHANGED remote
    /\ lastDone' = NoCall
    /\ UNCHANGED <<pc, op, err, result, clock, sargs, SOURCE, todo, copies, logged, repeat, start>>
    /\ UNCHANGED <<jobVars, combineVars>>

\* Time passes
Tick ==
    /\ pc = "idle"
    /\ clock < MaxTime
    /\ clock' = clock + 1
    /\ UNCHANGED <<pc, op, err, result, remote, local, sargs, SOURCE, todo, copies, logged, lastDone, repeat, start>>
    /\ UNCHANGED <<jobVars, combineVars>>

----------------------------------------------------------------------------
(* The end of a call *)

\* The caller has the outcome in hand, the locals of the call are gone and the
\* process is free for the next call
Return ==
    /\ pc \in {"done", "error"}
    /\ pc' = "idle"
    /\ op' = "none"
    /\ err' = ""
    /\ result' = None
    /\ writes' = <<>>
    /\ data_file' = None
    /\ sargs' = NoCall.args
    /\ SOURCE' = "None"
    /\ todo' = {}
    /\ copies' = {}
    /\ logged' = {}
    /\ repeat' = FALSE
    /\ start' = NoStores
    /\ UNCHANGED <<s3, cargs, remote, local, clock, lastDone, jobVars>>

----------------------------------------------------------------------------
(* Initial states *)

NoObjects == [f \in {} |-> 0]

Folder == <<APP_NAME, output_folder, "chunks">>

\* JSON values: 0 stands for a falsy value (null, {}, ""), the others for records
Values == {0, 1, 2}

SeqsUpTo(n) == UNION { [1..k -> Values] : k \in 0..n }

JsonDocs ==
    { List(v) : v \in SeqsUpTo(MaxLen) }
    \cup { Dict([k \in 1..Len(v) |-> k], v) : v \in SeqsUpTo(MaxLen) }

\* The rows of the .csv partition files
CsvContent(f) == IF f.star = <<49>> THEN List(<<1>>) ELSE List(<<2, 1>>)

\* The partition files "<tag>1<ext>", "<tag>2<ext>" and "<tag>10<ext>"
JsonFiles == { File(Folder, "court_results", st, ".json") : st \in { <<49>>, <<50>>, <<49, 48>> } }
CsvFiles == { File(Folder, "court_input", st, ".csv") : st \in { <<49>>, <<50>> } }

FunsUpTo(X, D, n) == UNION { [S -> D] : S \in { T \in SUBSET X : Cardinality(T) <= n } }

\* A file of the output folder that matches neither pattern
OtherObjects == [f \in { File(Folder, "README", <<>>, ".txt") } |-> List(<<>>)]

\* Combined artifacts left by an earlier run
PriorArtifacts ==
    [f \in { OutputFile(S3Path(Folder), "court_results", ".json"),
             OutputFile(S3Path(Folder), "court_input", ".csv") } |-> List(<<2, 2, 2>>)]

ProcessInit ==
    /\ pc = "idle"
    /\ op = "none"
    /\ err = ""
    /\ result = None

JobsInit ==
    /\ job = [flavor |-> "court", dataset |-> "d1", tag |-> <<>>, dry_run |-> FALSE]
    /\ ntasks = 0
    /\ wait = FALSE
    /\ requests = <<>>
    /\ tasks = <<>>
    /\ task_ids = <<>>
    /\ ecsTasks = NoObjects
    /\ attempts = 0
    /\ calls = <<>>
    /\ warned = FALSE

CombineInit ==
    /\ cargs = [flavor |-> "court", dataset |-> "d1", output_folder |-> S3Path(Folder)]
    /\ writes = <<>>
    /\ data_file = None

SyncInit ==
    /\ clock = 0
    /\ sargs = NoCall.args
    /\ SOURCE = "None"
    /\ todo = {}
    /\ copies = {}
    /\ logged = {}
    /\ lastDone = NoCall
    /\ repeat = FALSE
    /\ start = NoStores

\* submit_jobs: the partition files are those the tasks of a batch may leave
JobStores ==
    { NoObjects }
    \cup FunsUpTo(JsonFiles, { List(<<1>>) }, 1)
    \cup { j @@ c : j \in [JsonFiles -> { List(<<1>>) }], c \in [CsvFiles -> { List(<<1>>) }] }

Init ==
    /\ ProcessInit
    /\ JobsInit
    /\ CombineInit
    /\ SyncInit
    /\ s3 \in JobStores
    /\ remote = NoObjects
    /\ local = NoObjects

Next ==
    \/ SubmitJobs
    \/ RunTask
    \/ ReturnNoWait
    \/ ProvisioningCheckRaises
    \/ ProvisioningCheck
    \/ WaiterPoll
    \/ DescribeTasks
    \/ TaskStops
    \/ CombineStart
    \/ CombineIteration(0)
    \/ CombineIteration(1)
    \/ CombineReturn

Spec == Init /\ [][Next]_vars

\* The steps of the process that runs submit_jobs: all but those of ECS
ProcessNext ==
    \/ RunTask
    \/ ReturnNoWait
    \/ ProvisioningCheckRaises
    \/ ProvisioningCheck
    \/ WaiterPoll
    \/ DescribeTasks
    \/ CombineStart
    \/ CombineIteration(0)
    \/ CombineIteration(1)
    \/ CombineReturn

\* combine_parallel_results called directly, on any content of the output folder
InitCombine ==
    /\ ProcessInit
    /\ JobsInit
    /\ CombineInit
    /\ SyncInit
    /\ \E j \in FunsUpTo(JsonFiles, JsonDocs, MaxFiles),
          c \in { [f \in S |-> CsvContent(f)] : S \in SUBSET CsvFiles },
          o \in { NoObjects, OtherObjects }, a \in { NoObjects, PriorArtifacts } :
          /\ DOMAIN o # {} => DOMAIN j = {} /\ DOMAIN c = {}
          /\ s3 = j @@ c @@ o @@ a
    /\ remote = NoObjects
    /\ local = NoObjects

NextCombine ==
    \/ CombineCall
    \/ CombineStart
    \/ CombineIteration(0)
    \/ CombineIteration(1)
    \/ CombineReturn
    \/ Return

SpecCombine == InitCombine /\ [][NextCombine]_vars

\* sync, on any content of the two trees
InitSync ==
    /\ ProcessInit
    /\ JobsInit
    /\ CombineInit
    /\ SyncInit
    /\ s3 = NoObjects
    /\ remote \in UNION { [S -> {0}] : S \in SUBSET RemoteFiles }
    /\ local \in UNION { [S -> {0}] : S \in SUBSET LocalFiles }

NextSync ==
    \/ SyncRejects
    \/ SyncCall
    \/ SyncFile
    \/ SyncDone
    \/ Touch
    \/ Tick
    \/ Return

SpecSync == InitSync /\ [][NextSync]_vars

----------------------------------------------------------------------------
(* Properties of submit_jobs *)

\* The tasks the cluster provisioned for this batch
ProvisionedArns == DOMAIN ecsTasks

\* Some launch of the batch obtained no task handle
SomeLaunchFailed == Cardinality(ProvisionedArns) < Len(requests)

StopRequested(a) == Call("stop_task", a) \in Elems(calls)

ReducerInvoked == Call("combine_parallel_results", 0) \in Elems(calls)

\* C1: when submit_jobs with wait=true ends with its error after a launch
\* failed provisioning, a stop request has been issued for every task that
\* was provisioned.
C1_FailedBatchIsStopped ==
    (op = "submit_jobs" /\ wait /\ pc = "error" /\ SomeLaunchFailed)
        => \A a \in ProvisionedArns : StopRequested(a)

\* C2: when a launch failed provisioning, submit_jobs with wait=true fails
\* with the summary error, returns no path, and neither waits nor reduces.
C2_FailedBatchSummaryError ==
    (op = "submit_jobs" /\ wait /\ pc \in {"done", "error"} /\ SomeLaunchFailed)
        => /\ pc = "error"
           /\ err = ErrProvisioning
           /\ result = None
           /\ attempts = 0
           /\ ~ReducerInvoked
           /\ writes = <<>>

\* C3: submit_jobs issues its launch requests in increasing index order, the
\* k-th carrying partition index k-1, all commands equal but for that last
\* flag, and exactly ntasks of them once the launch loop is over.
C3_LaunchRequests ==
    /\ Len(requests) <= ntasks
    /\ \A k \in 1..Len(requests) :
          /\ Last(requests[k]) = "--pid=" \o ToString(k - 1)
          /\ SubSeq(requests[k], 1, Len(requests[k]) - 1)
                = SubSeq(requests[1], 1, Len(requests[1]) - 1)
    /\ (op = "submit_jobs" /\ pc # "run_task") => Len(requests) = ntasks

C3_Witness ==
    /\ op = "submit_jobs"
    /\ pc = "done"
    /\ ntasks = MaxTasks
    /\ Len(requests) = MaxTasks

\* C4: in submit_jobs with wait=true the reducer runs, and writes, only when
\* every provisioned task is in the terminal state STOPPED.
C4_ReduceAfterBarrier ==
    (op = "submit_jobs"
        /\ (ReducerInvoked \/ writes # <<>>
            \/ pc \in {"combine", "combine_0", "combine_1", "combine_return"}))
        => \A a \in ProvisionedArns : ecsTasks[a].lastStatus = "STOPPED"

C4_Witness ==
    /\ op = "submit_jobs"
    /\ pc = "combine_1"
    /\ Len(writes) = 1
    /\ Cardinality(ProvisionedArns) = MaxTasks
    /\ \E a, b \in ProvisionedArns : ecsTasks[a].exitCode # ecsTasks[b].exitCode

----------------------------------------------------------------------------
(* Properties of combine_parallel_results *)

JsonGlob == { f \in DOMAIN s3 : f.dir = Folder /\ f.tag = "court_results" /\ f.ext = ".json" }
CsvGlob == { f \in DOMAIN s3 : f.dir = Folder /\ f.tag = "court_input" /\ f.ext = ".csv" }

JsonArtifact == File(<<APP_NAME, output_folder>>, "court_results", <<>>, ".json")
CsvArtifact == File(<<APP_NAME, output_folder>>, "court_input", <<>>, ".csv")

CombineEnded == op = "combine" /\ pc \in {"done", "error"}

\* C5 as claimed: if either glob yields zero files, the reduction fails and
\* the run has written no combined artifact of either kind.
C5_NoArtifactWhenAGlobIsEmpty ==
    (CombineEnded /\ (JsonGlob = {} \/ CsvGlob = {}))
        => pc = "error" /\ writes = <<>>

\* C5, amended: if either glob yields zero files the reduction fails; the run
\* has written no combined artifact when the .json glob is the empty one and
\* no combined .csv artifact in either case, but a run that fails on the
\* empty .csv glob has already written the combined .json artifact.
C5_AbortOnFirstEmptyGlob ==
    CombineEnded =>
        /\ (JsonGlob = {} \/ CsvGlob = {}) => pc = "error" /\ CsvArtifact \notin Elems(writes)
        /\ JsonGlob = {} => writes = <<>>
        /\ (err = ErrNoFiles /\ JsonGlob # {}) => writes = << JsonArtifact >>

C5_Witness ==
    /\ CombineEnded
    /\ err = ErrNoFiles
    /\ JsonGlob # {}
    /\ CsvGlob = {}
    /\ writes = << JsonArtifact >>

RECURSIVE SumLen(_, _)
SumLen(store, S) ==
    IF S = {} THEN 0
    ELSE LET f == CHOOSE x \in S : TRUE
         IN Len(store[f].vals) + SumLen(store, S \ {f})

\* The files of S whose name is before that of f in the order of strings
Before(S, f) == { g \in S : StrLess(NameChars(g), NameChars(f)) }

\* C6: over K >= 1 .json partition files that each hold a list, the combined
\* .json artifact is the lists one after the other in the lexicographic
\* order of the file names, so its length is the sum of their lengths.
C6_JsonConcatInNameOrder ==
    (\A f \in JsonGlob : ~s3[f].isdict)
        => /\ (CombineEnded /\ JsonGlob # {}) => (writes # <<>> /\ writes[1] = JsonArtifact)
           /\ writes # <<>> =>
                LET out == s3[JsonArtifact].vals
                IN /\ Len(out) = SumLen(s3, JsonGlob)
                   /\ \A f \in JsonGlob : \A i \in 1..Len(s3[f].vals) :
                         out[SumLen(s3, Before(JsonGlob, f)) + i] = s3[f].vals[i]

\* the files "...2.json" and "...10.json": the order of the names is not
\* that of the partition indices
C6_Witness ==
    /\ op = "combine"
    /\ pc = "done"
    /\ \E f, g \in JsonGlob :
          /\ f.star = <<50>> /\ g.star = <<49, 48>>
          /\ ~s3[f].isdict /\ ~s3[g].isdict
          /\ s3[f].vals = <<2>> /\ s3[g].vals = <<1>>
          /\ JsonGlob = {f, g}
    /\ s3[JsonArtifact].vals = <<1, 2>>

----------------------------------------------------------------------------
(* Properties of sync *)

SourceFs == IF SOURCE = "aws" THEN remote ELSE local
DestFs == IF SOURCE = "aws" THEN local ELSE remote

\* The files under the source of the call in progress
SourceFiles == { f \in DOMAIN SourceFs : IsPrefix(LoopSource(sargs).segs, f) }

\* The destination paths of the source files
Counterparts == { LoopDest(sargs).segs \o Tail(f) : f \in SourceFiles }

\* C7: a sync that repeats a completed non-dry-run sync, nothing having
\* changed in between, performs zero copies.
C7_RepeatedSyncCopiesNothing ==
    (op = "sync" /\ pc = "done" /\ repeat) => copies = {}

\* C8: sync copies a file only if its destination does not exist in the
\* destination realm or is strictly older than the source.
C8_CopiesOnlyMissingOrStale ==
    [][ \A c \in copies' \ copies :
            \/ c.dst.segs \notin DOMAIN DestFs
            \/ SourceFs[c.src] > DestFs[c.dst.segs] ]_vars

\* C9: after a non-dry-run sync that completes without error, every file
\* under source exists at its destination path.
C9_CompletedSyncMirrorsSource ==
    (op = "sync" /\ pc = "done" /\ ~sargs.dry_run)
        => Counterparts \subseteq DOMAIN DestFs

C9_Witness ==
    /\ op = "sync"
    /\ pc = "done"
    /\ ~sargs.dry_run
    /\ Cardinality(copies) = 2
    /\ Cardinality(SourceFiles) = 2

\* C10: no step of a sync call, dry run or not, completing or failing,
\* deletes a destination file, changes a destination file that has no source
\* counterpart, or changes the source tree.
C10_SyncIsAdditive ==
    [][ (pc = "sync")
            => /\ SourceFs' = SourceFs
               /\ DOMAIN DestFs \subseteq DOMAIN DestFs'
               /\ \A p \in DOMAIN DestFs \ Counterparts : DestFs'[p] = DestFs[p] ]_vars

\* a sync that failed partway, after a copy, beside a destination file that
\* has no source counterpart
C10_Witness ==
    /\ op = "sync"
    /\ pc = "error"
    /\ err = ErrTransfer
    /\ copies # {}
    /\ DOMAIN DestFs \ Counterparts # {}

\* The stores as the call in progress found them
StartSource == IF SOURCE = "aws" THEN start.remote ELSE start.local
StartDest == IF SOURCE = "aws" THEN start.local ELSE start.remote

\* The source files that the loop of sync finds due at the start of the call
Due ==
    { f \in DOMAIN StartSource :
        /\ IsPrefix(LoopSource(sargs).segs, f)
        /\ LET df == dest_file(LoopDest(sargs), f)
           IN \/ Path(df) \notin DOMAIN start.local
              \/ /\ df.segs \in DOMAIN StartDest
                 /\ StartSource[f] > StartDest[df.segs] }

\* C11: a dry run performs no transfer and leaves both stores as it found
\* them, and the files a completed dry run reports are those a completed
\* non-dry run copies from the same starting state: both are the files due
\* at the start of the call.
C11_DryRunReportsWhatARunCopies ==
    /\ (op = "sync" /\ sargs.dry_run)
          => (copies = {} /\ remote = start.remote /\ local = start.local)
    /\ (op = "sync" /\ pc = "done")
          => IF sargs.dry_run
             THEN { c.src : c \in logged } = Due
             ELSE { c.src : c \in copies } = Due

\* a completed dry run that reports one of the two source files
C11_Witness ==
    /\ op = "sync"
    /\ pc = "done"
    /\ sargs.dry_run
    /\ Cardinality(logged) = 1
    /\ Cardinality(SourceFiles) = 2

----------------------------------------------------------------------------
(* Properties of submit_jobs, continued *)

\* Only launch requests have been made, one per partition, in index order
OnlyLaunches == calls = [k \in 1..ntasks |-> Call("run_task", k - 1)]

\* C12 as stated: submit_jobs with wait=false returns the list of the N
\* launch results right after the last launch request, having issued no stop,
\* wait, describe or reduce.
C12_NoWaitReturnsLaunchResults ==
    (op = "submit_jobs" /\ ~wait /\ pc = "done")
        => /\ result # None
           /\ Len(tasks) = ntasks
           /\ OnlyLaunches

\* C12, amended: submit_jobs with wait=false returns None right after the
\* last launch request; the N launch results, in partition order, stay in
\* the call, no stop, wait, describe or reduce is issued and nothing is
\* written.
C12_NoWaitReturnsNone ==
    (op = "submit_jobs" /\ ~wait)
        => /\ pc \in {"run_task", "done"}
           /\ attempts = 0
           /\ task_ids = <<>>
           /\ writes = <<>>
           /\ pc = "done"
                => /\ result = None
                   /\ Len(tasks) = ntasks
                   /\ \A k \in 1..ntasks : tasks[k] \in {NotProvisioned, Provisioned(k - 1)}
                   /\ OnlyLaunches

\* the call has returned and a task it launched is still running
C12_Witness ==
    /\ op = "submit_jobs"
    /\ ~wait
    /\ pc = "done"
    /\ ntasks = MaxTasks
    /\ \E a \in ProvisionedArns : ecsTasks[a].lastStatus = "RUNNING"

\* The number of calls of the reducer so far
ReducerCalls == Cardinality({ k \in DOMAIN calls : calls[k].op = "combine_parallel_results" })

\* The waiter has returned: every task of the batch was seen STOPPED
BarrierPassed == op = "submit_jobs" /\ wait /\ pc \notin {"idle", "run_task", "wait"} /\ err # ErrWaiter /\ attempts > 0

\* The call is over, by a return or by an error
Finished == pc \in {"done", "error"}

\* C13 as stated: in submit_jobs with wait=true, once the tasks have all
\* stopped the reducer is invoked exactly once and the call returns the path
\* of its combined artifact, whatever the exit codes.
C13_PathReturnedAfterBarrier ==
    (BarrierPassed /\ Finished)
        => (ReducerCalls = 1 /\ pc = "done" /\ result = PathResult(JsonArtifact))

\* C13, amended: in submit_jobs with wait=true, once the tasks have all
\* stopped the reducer is invoked, exactly once and whatever the exit codes;
\* the call returns the path of its combined artifact when the reducer
\* returns, and fails with the reducer's own error when the reducer raises.
\* A non-zero exit code only warns: it does not abort the call and no task
\* is stopped.
C13_ReduceWhateverTheExitCodes ==
    /\ ReducerCalls <= 1
    /\ BarrierPassed => \A k \in DOMAIN calls : calls[k].op # "stop_task"
    /\ (BarrierPassed /\ pc # "describe") => ReducerCalls = 1
    /\ (BarrierPassed /\ pc = "error") => err \in {ErrNoFolder, ErrNoFiles}
    /\ (op = "submit_jobs" /\ wait /\ pc = "done")
          => (BarrierPassed /\ result = PathResult(JsonArtifact))

\* the path is returned although a task exited with a non-zero code, and
\* another with zero
C13_Witness ==
    /\ op = "submit_jobs"
    /\ wait
    /\ pc = "done"
    /\ warned
    /\ result = PathResult(JsonArtifact)
    /\ \E a, b \in ProvisionedArns : ecsTasks[a].exitCode = 1 /\ ecsTasks[b].exitCode = 0

\* An upper bound of the number of steps the process has left to make in
\* the call of submit_jobs in progress
StepsLeft ==
    CASE pc = "run_task" -> (Len(LaunchPids(ntasks)) - Len(tasks)) + MaxAttempts + 6
      [] pc = "wait" -> (MaxAttempts - attempts) + 5
      [] pc = "describe" -> 5
      [] pc = "combine" -> 4
      [] pc = "combine_0" -> 3
      [] pc = "combine_1" -> 2
      [] pc = "combine_return" -> 1
      [] OTHER -> 0

\* C14: submit_jobs with wait=true always ends, even if a task never stops:
\* until it has ended the process has a step to make, whatever the tasks do,
\* and each of its steps lowers the natural number StepsLeft.  The waiter
\* makes at most MaxAttempts polls, and when it gives up the call fails with
\* the waiter's timeout error, no stop request has been issued and the
\* reducer has not been invoked.
C14_WaitTerminates ==
    /\ [](attempts <= MaxAttempts)
    /\ []((op = "submit_jobs" /\ err = ErrWaiter)
            => /\ pc = "error"
               /\ attempts = MaxAttempts
               /\ \A k \in DOMAIN calls : calls[k].op \in {"run_task", "wait"}
               /\ ~ReducerInvoked
               /\ writes = <<>>
               /\ result = None)
    /\ []((op = "submit_jobs" /\ wait /\ ~Finished) => (StepsLeft > 0 /\ ENABLED ProcessNext))
    /\ [][ProcessNext => StepsLeft' < StepsLeft]_vars

\* the waiter gave up on a task that is still running
C14_Witness ==
    /\ op = "submit_jobs"
    /\ wait
    /\ pc = "error"
    /\ err = ErrWaiter
    /\ attempts = MaxAttempts
    /\ \E a \in ProvisionedArns : ecsTasks[a].lastStatus = "RUNNING"

----------------------------------------------------------------------------
(* Properties of sync, continued *)

\* Exactly one of the two arguments of the call carries the prefix s3://
ExactlyOneRemote == sargs.source.s3 # sargs.dest.s3

\* C15: a sync call is accepted only when exactly one of source and dest
\* carries the s3:// prefix, remote->local when it is source and
\* local->remote when it is dest; when neither or both carry it the call
\* fails without enumerating or copying anything.
C15_ExactlyOneRemote ==
    op = "sync"
        => /\ ExactlyOneRemote
              => SOURCE = (IF sargs.source.s3 THEN "aws" ELSE "local")
           /\ ~ExactlyOneRemote
              => (pc = "error" /\ todo = {} /\ logged = {} /\ copies = {})

\* The argument of the call that names the local side, when exactly one of
\* the two is remote
LocalSide == IF sargs.source.s3 THEN sargs.dest ELSE sargs.source

\* C16: a sync call whose local-side path is not under HOME_DIR fails with
\* the path error before any storage operation: nothing is enumerated,
\* reported or copied and both stores are as the call found them.
C16_LocalSideUnderHome ==
    (op = "sync" /\ ExactlyOneRemote /\ Head(LocalSide.segs) = "/")
        => /\ pc = "error"
           /\ err = ErrNotRelative
           /\ todo = {}
           /\ logged = {}
           /\ copies = {}
           /\ remote = start.remote
           /\ local = start.local

\* the rejected call is a download, not a dry run, of a folder that has files
C16_Witness ==
    /\ op = "sync"
    /\ pc = "error"
    /\ err = ErrNotRelative
    /\ ~sargs.dry_run
    /\ sargs.source.s3
    /\ Head(sargs.dest.segs) = "/"
    /\ \E f \in DOMAIN remote : IsPrefix(sargs.source.segs, f)

----------------------------------------------------------------------------
(* Properties of combine_parallel_results, continued *)

\* What a run makes of the partition files of one kind, and of nothing else
JsonOfPartitions == List(CombineJson(s3, sorted(JsonGlob)))
CsvOfPartitions == List(CombineCsv(s3, sorted(CsvGlob)))

\* C17: a run of the reducer writes each artifact at most once, the .json
\* one then the .csv one, and both when it returns; an artifact it has
\* written holds what the current partition files of its kind give, whatever
\* an earlier run left there.  The artifacts lie one level above the output
\* folder and are not partition files, and no step changes the partition
\* files: a second run over them leaves the same artifacts.
C17_ArtifactsDependOnPartitionsOnly ==
    /\ [](op = "combine"
            => /\ writes \in {<<>>, <<JsonArtifact>>, <<JsonArtifact, CsvArtifact>>}
               /\ pc = "done" => Len(writes) = 2
               /\ Len(writes) >= 1 => s3[JsonArtifact] = JsonOfPartitions
               /\ Len(writes) >= 2 => s3[CsvArtifact] = CsvOfPartitions
               /\ JsonArtifact \notin JsonGlob
               /\ CsvArtifact \notin CsvGlob)
    /\ [][ /\ JsonGlob' = JsonGlob
           /\ CsvGlob' = CsvGlob
           /\ \A f \in JsonGlob \cup CsvGlob : s3'[f] = s3[f] ]_vars

\* the run has written the .json artifact over the one an earlier run left;
\* the .csv artifact of the earlier run is still there
C17_Witness ==
    /\ op = "combine"
    /\ pc = "combine_1"
    /\ writes = <<JsonArtifact>>
    /\ CsvArtifact \in DOMAIN s3
    /\ s3[CsvArtifact] = List(<<2, 2, 2>>)
    /\ s3[JsonArtifact] = List(<<1, 2>>)

\* What one .json partition file gives: the values of a mapping that are not
\* falsy, in document order, or the list as it is
Contribution(doc) ==
    IF doc.isdict THEN SelectSeq(doc.vals, LAMBDA v : v \in Values \ {0}) ELSE doc.vals

\* The number of elements the files of S give
RECURSIVE SumContribution(_)
SumContribution(S) ==
    IF S = {} THEN 0
    ELSE LET f == CHOOSE x \in S : TRUE
         IN Len(Contribution(s3[f])) + SumContribution(S \ {f})

----------------------------------------------------------------------------
(* Properties of sync: destination paths *)

\* The path of a source file relative to the source of the call
RelativeToSource(f) == SubSeq(f, Len(LoopSource(sargs).segs) + 1, Len(f))

\* C19: the destination path of a source file is dest followed by the path
\* of the file relative to source (<source>/<rel> goes to <dest>/<rel>); it
\* is under dest, and two source files have two destination paths.
C19_DestIsRelativeToSource ==
    op = "sync"
        => /\ \A c \in logged :
                 /\ c.dst.segs = LoopDest(sargs).segs \o RelativeToSource(c.src)
                 /\ IsPrefix(LoopDest(sargs).segs, c.dst.segs)
           /\ \A c, d \in logged : c.src # d.src => c.dst # d.dst

----------------------------------------------------------------------------
(* Properties of submit_jobs: the launch loop *)

\* C20: submit_jobs issues its N launch requests before it inspects a launch
\* result: while fewer than N requests have been made the call is in its
\* launch loop, with a launch as its only step even after a launch that
\* failed provisioning, and has not checked, stopped, waited or reduced;
\* every other request comes after the N-th launch request.
C20_AllLaunchesBeforeAnyCheck ==
    op = "submit_jobs"
        => /\ Len(requests) < ntasks
              => /\ pc = "run_task"
                 /\ err = ""
                 /\ ENABLED RunTask
                 /\ ~ENABLED (ReturnNoWait \/ ProvisioningCheckRaises \/ ProvisioningCheck)
                 /\ attempts = 0
                 /\ task_ids = <<>>
                 /\ writes = <<>>
           /\ \A k \in DOMAIN calls :
                 IF k <= ntasks THEN calls[k] = Call("run_task", k - 1)
                                ELSE calls[k].op # "run_task"

\* the first launch failed provisioning, the second was made all the same,
\* and the check then ended the call
C20_Witness ==
    /\ op = "submit_jobs"
    /\ wait
    /\ pc = "error"
    /\ ntasks = 2
    /\ Len(requests) = 2
    /\ tasks = << NotProvisioned, Provisioned(1) >>

====
